---- MODULE Spec2Model ----
(***************************************************************************)
(* Content-based movie recommender (src/app/recommender.py) together with   *)
(* the rating upsert handler (src/app/routers/users.py) and the movie /     *)
(* rating tables (src/app/models.py).                                       *)
(*                                                                          *)
(* Numbers.  Python floats are modelled in fixed point.  A cosine           *)
(* similarity is an integer number of 1/SimUnit; a value returned to the    *)
(* caller as a score is an integer number of 1/ScoreUnit, where             *)
(* ScoreUnit = BlendDen * SimUnit, so that 0.9*s + 0.1*p is exact.          *)
(* The weighted average of line 63-67 rounds down to a multiple of          *)
(* 1/SimUnit.                                                               *)
(*                                                                          *)
(* Text.  The TF-IDF row of a movie is modelled by the set of terms of its  *)
(* document (all terms weighted alike), and the cosine of two rows by the   *)
(* share of terms they have in common.                                      *)
(*                                                                          *)
(* Database.  Every db.query(...) reads the tables as they are at the       *)
(* moment of the call.  Rows of the movies table are inserted, deleted and  *)
(* updated by the catalog's owner, outside the request handlers.            *)
(* The ratings table is projected on the user the requests are made for.    *)
(***************************************************************************)
EXTENDS Integers, Sequences, FiniteSets, TLC

\* ------------------------------------------------------------------ bounds
\* movie ids are handed out by the table's auto-increment key: 1..MaxId
MaxId == 3
\* writes to the movies table that may fall inside one request
MaxRaces == 1
\* longest liked_ids / weights argument of a direct scores_for_movies call
MaxArgs == 2
\* most ratings of the user in a rating history
MaxRated == 11

\* ------------------------------------------------------- program constants
\* a NULL popularity column (nullable Float)
NoPop == -1
\* ratings_sorted[: min(10, len(ratings_sorted))]
TopN == 10
\* s * 0.9 + 0.1 * pop, in tenths
ContentWeight == 9
PopWeight == 1
BlendDen == 10
\* resolution of a similarity value
SimUnit == 100
ScoreUnit == BlendDen * SimUnit

\* the request-handling threads of the process
Threads == {1, 2}

VARIABLES
    movies,        \* the movies table, in table order: <<[id, popularity]>>
    nextId,        \* the next auto-increment id of the movies table
    ratings,       \* the ratings of the user: movie_id -> rating
    movie_ids,     \* _recommender.movie_ids
    tfidf_matrix,  \* _recommender.tfidf_matrix: [isNone, rows]
    last_count,    \* history: <<n>> once an ensure_model call has seen n movies
    req,           \* per thread: the position and locals of its request
    probe          \* the last direct call on a ContentRecommender and its result

vars == <<movies, nextId, ratings, movie_ids, tfidf_matrix, last_count, req, probe>>

\* ----------------------------------------------------------------- helpers
Range(s) == {s[i] : i \in 1..Len(s)}

Min(a, b) == IF a < b THEN a ELSE b

Take(s, n) == SubSeq(s, 1, Min(n, Len(s)))

Ids(ms) == [i \in 1..Len(ms) |-> ms[i].id]

RECURSIVE SumSeq(_)
SumSeq(w) == IF Len(w) = 0 THEN 0 ELSE w[1] + SumSeq(Tail(w))

\* sorted(..., reverse=True) and list.sort(reverse=True) on a list with the
\* given keys: descending by key, equal keys keep their input order
Rank(keys, i) ==
    1 + Cardinality({j \in 1..Len(keys) :
                        \/ keys[j] > keys[i]
                        \/ keys[j] = keys[i] /\ j < i})

DescOrder(keys) ==
    [p \in 1..Len(keys) |-> CHOOSE i \in 1..Len(keys) : Rank(keys, i) = p]

SortDescStable(s, keys) == [p \in 1..Len(s) |-> s[DescOrder(keys)[p]]]

\* (m.popularity or 0.0)
PopOrZero(p) == IF p = NoPop THEN 0 ELSE p

\* float(x) of a popularity, in score units
Float(p) == p * ScoreUnit

\* ------------------------------------------------- ContentRecommender, pure
\* _build_corpus_row and the vectorizer's row for it: the terms of the movie's
\* title, genres and overview.  Every document has two terms; two movies
\* share at most one.
Doc(id) == {id \div 2, MaxId + 2 + (id % 2)}

\* cosine_similarity of two rows, in 1/SimUnit
CosSim(r1, r2) ==
    IF r1 = {} \/ r2 = {} THEN 0
    ELSE (SimUnit * Cardinality(r1 \cap r2)) \div Cardinality(r1)

\* the model as constructed: movie_ids = [], tfidf_matrix = None
NoMatrix == [isNone |-> TRUE, rows |-> << >>]

\* fit, line 31: the ids of the movies, in input order
FitIds(ms) == Ids(ms)

\* fit without line 35: an empty corpus leaves the old matrix in place
FitMatrix_KeepsOld(ms) ==
    IF Len(ms) = 0 THEN tfidf_matrix
    ELSE [isNone |-> FALSE, rows |-> [i \in 1..Len(ms) |-> Doc(ms[i].id)]]

\* fit, lines 32-38: None for an empty corpus, else one row per movie
FitMatrix(ms) ==
    IF Len(ms) = 0 THEN NoMatrix
    ELSE [isNone |-> FALSE, rows |-> [i \in 1..Len(ms) |-> Doc(ms[i].id)]]

\* id_to_index[mid] (line 48), 1-based: a later duplicate overwrites
IdToIndex(ids, mid) ==
    CHOOSE i \in 1..Len(ids) :
        ids[i] = mid /\ \A j \in (i + 1)..Len(ids) : ids[j] # mid

\* indices (line 50): the rows of the liked ids the model knows, in liked order
Indices(ids, liked) ==
    LET found == SelectSeq(liked, LAMBDA mid : mid \in Range(ids))
    IN  [k \in 1..Len(found) |-> IdToIndex(ids, found[k])]

\* weights as used on line 63: the argument, or 1.0 per index when it is None
WeightsUsed(weights, indices) ==
    IF weights.given THEN weights.w ELSE [k \in 1..Len(indices) |-> 1]

\* (sims @ w)[i] with w = weights / (sum(weights) + 1e-12), lines 57-67
RECURSIVE WeightedSum(_, _, _, _, _)
WeightedSum(rows, i, indices, w, k) ==
    IF k = 0 THEN 0
    ELSE CosSim(rows[i], rows[indices[k]]) * w[k]
         + WeightedSum(rows, i, indices, w, k - 1)

ScoreOfRow(rows, i, indices, w) ==
    IF SumSeq(w) = 0 THEN 0
    ELSE WeightedSum(rows, i, indices, w, Len(indices)) \div SumSeq(w)

\* line 70 without lines 73-74: the liked ids stay in the result
ScoreItems_KeepsLiked(ids, rows, indices, w, liked) ==
    [i \in 1..Len(ids) |-> [id |-> ids[i], s |-> ScoreOfRow(rows, i, indices, w)]]

\* result of line 70 with the liked ids popped (lines 73-74): the dict as the
\* sequence of its items, in insertion order
ScoreItems(ids, rows, indices, w, liked) ==
    SelectSeq([i \in 1..Len(ids) |-> [id |-> ids[i], s |-> ScoreOfRow(rows, i, indices, w)]],
              LAMBDA e : e.id \notin Range(liked))

\* scores_for_movies without lines 51-53: no liked id found is not an early
\* return, and the product of line 67 is taken with no column
ScoresForMovies_NoEarlyReturn(ids, matrix, liked, weights) ==
    IF matrix.isNone \/ Len(ids) = 0
    THEN [raised |-> FALSE, map |-> << >>]
    ELSE LET indices == Indices(ids, liked)
             w       == WeightsUsed(weights, indices)
         IN  IF \/ Len(ids) > Len(matrix.rows)
                \/ Len(w) # Len(indices)
             THEN [raised |-> TRUE, map |-> << >>]
             ELSE [raised |-> FALSE,
                   map |-> [i \in 1..Len(ids) |-> [id |-> ids[i], s |-> 0]]]

\* scores_for_movies(liked, weights) on the model (ids, matrix):
\* [raised, map].  It raises where numpy does: a row index beyond the matrix
\* (lines 57, 70) and sims @ w with len(w) # len(indices) (line 67).
ScoresForMovies(ids, matrix, liked, weights) ==
    IF matrix.isNone \/ Len(ids) = 0
    THEN [raised |-> FALSE, map |-> << >>]
    ELSE LET indices == Indices(ids, liked)
             w       == WeightsUsed(weights, indices)
         IN  IF Len(indices) = 0
             THEN [raised |-> FALSE, map |-> << >>]
             ELSE IF \/ Len(ids) > Len(matrix.rows)
                     \/ Len(w) # Len(indices)
                  THEN [raised |-> TRUE, map |-> << >>]
                  ELSE [raised |-> FALSE,
                        map |-> ScoreItems(ids, matrix.rows, indices, w, liked)]

\* ------------------------------------------------------ database queries
\* db.query(Movie).all()
AllMovies == movies

\* the query without order_by: the first n rows in table order
TopByPopularity_TableOrder(n) == Take(movies, n)

\* db.query(Movie).order_by(Movie.popularity.desc()).limit(n).all(); NULL sorts
\* last, rows of equal popularity in table order
TopByPopularity(n) ==
    Take(SortDescStable(movies, [i \in 1..Len(movies) |-> movies[i].popularity]), n)

\* [(m, float(m.popularity or 0.0)) for m in movies], lines 96 and 111
WithPopularityScore(ms) ==
    [i \in 1..Len(ms) |-> [movie |-> ms[i], score |-> Float(PopOrZero(ms[i].popularity))]]

\* db.query(Rating).filter(Rating.user_id == user_id).all(): in key order
UserRatings ==
    LET rated == {m \in DOMAIN ratings : TRUE}
        Pos(m) == 1 + Cardinality({x \in rated : x < m})
    IN  [p \in 1..Cardinality(rated) |->
            LET m == CHOOSE x \in rated : Pos(x) = p
            IN  [movie_id |-> m, rating |-> ratings[m]]]

\* line 100 without the sort of line 99: the first TopN ratings as read
TopRatings_Unsorted(rs) == SubSeq(rs, 1, Min(TopN, Len(rs)))

\* lines 99-100: the TopN highest ratings, ties in input order
TopRatings(rs) ==
    LET ratings_sorted == SortDescStable(rs, [i \in 1..Len(rs) |-> rs[i].rating])
    IN  SubSeq(ratings_sorted, 1, Min(TopN, Len(ratings_sorted)))

\* line 115
PopMap == [i \in 1..Len(movies) |-> [id |-> movies[i].id, p |-> PopOrZero(movies[i].popularity)]]

\* pop_map.get(mid, 0.0)
PopGet(pm, mid) ==
    IF \E i \in 1..Len(pm) : pm[i].id = mid
    THEN (CHOOSE e \in Range(pm) : e.id = mid).p
    ELSE 0

\* line 116 with the two weights exchanged
Blend_Swapped(sm, pm) ==
    [i \in 1..Len(sm) |->
        [id |-> sm[i].id,
         score |-> sm[i].s * PopWeight + ContentWeight * PopGet(pm, sm[i].id) * SimUnit]]

\* lines 116-117: blend, then sort by blended score, descending
Blend(sm, pm) ==
    [i \in 1..Len(sm) |->
        [id |-> sm[i].id,
         score |-> sm[i].s * ContentWeight + PopWeight * PopGet(pm, sm[i].id) * SimUnit]]

\* line 116 without the sort of line 117
Blended_Unsorted(sm, pm) == Blend(sm, pm)

Blended(sm, pm) ==
    LET b == Blend(sm, pm)
    IN  SortDescStable(b, [i \in 1..Len(b) |-> b[i].score])

\* line 122: the rows whose id is among the given ids
MoviesIn(idset) == SelectSeq(movies, LAMBDA m : m.id \in idset)

\* lines 126-130 without "if mid in id_to_movie": a KeyError for an id that
\* was not found
Resolve_NoFilter(blended, limit) ==
    LET id_to_movie == MoviesIn(Range(Ids(Take(blended, limit))))
        found(mid) == mid \in Range(Ids(id_to_movie))
    IN  IF \E i \in 1..Len(blended) : ~found(blended[i].id)
        THEN [raised |-> TRUE, out |-> << >>]
        ELSE [raised |-> FALSE,
              out |-> Take([i \in 1..Len(blended) |->
                              [movie |-> CHOOSE m \in Range(id_to_movie) : m.id = blended[i].id,
                               score |-> blended[i].score]],
                           limit)]

\* lines 120-130: [raised, out]; id_to_movie[mid] is looked up only for the
\* ids that were found, so no KeyError is raised
Resolve(blended, limit) ==
    LET id_to_movie == MoviesIn(Range(Ids(Take(blended, limit))))
        kept == SelectSeq(blended, LAMBDA e : e.id \in Range(Ids(id_to_movie)))
    IN  [raised |-> FALSE,
         out |-> Take([i \in 1..Len(kept) |->
                         [movie |-> CHOOSE m \in Range(id_to_movie) : m.id = kept[i].id,
                          score |-> kept[i].score]],
                      limit)]

\* ------------------------------------------------------------------ state
\* popularity of a row: NULL or a positive value
PopValues == {NoPop, 1}
\* rating values a user gives
RatingValues == {1, 2}
\* the limit of a request
Limits == {1, 2}

\* a thread with no request in progress
IdleReq ==
    [pc |-> "idle", limit |-> 0, liked_ids |-> << >>, weights |-> << >>,
     movies |-> << >>, prev_count |-> << >>, rebuilds |-> 0,
     before |-> [ids |-> << >>, matrix |-> NoMatrix],
     score_map |-> << >>, pop_map |-> << >>, blended |-> << >>,
     out |-> << >>, branch |-> "none", races |-> 0]

NoProbe == [op |-> "none", items |-> << >>, prev_ids |-> << >>, liked |-> << >>,
            weights |-> [given |-> FALSE, w |-> << >>],
            result |-> [raised |-> FALSE, map |-> << >>]]

\* an empty catalog, no ratings, _recommender = ContentRecommender() (line 79)
Init ==
    /\ movies = << >>
    /\ nextId = 1
    /\ ratings = << >>
    /\ movie_ids = << >>
    /\ tfidf_matrix = NoMatrix
    /\ last_count = << >>
    /\ req = [t \in Threads |-> IdleReq]
    /\ probe = NoProbe

\* Writes to the movies table between two requests, and inside a request.
\* Inside a request a write is placed directly before the next read of the
\* table (lines 84, 95, 110, 115, 122): the steps in between read no table,
\* so the write commutes with them.  At most MaxRaces writes fall inside one
\* request, and none while a handler is returning its result.
BeforeRead == {"L84", "L95", "L110", "L115", "L122"}

AllIdle == \A t \in Threads : req[t].pc = "idle"

MayRace ==
    \A t \in Threads :
        \/ req[t].pc = "idle"
        \/ req[t].pc \in BeforeRead /\ req[t].races < MaxRaces

Raced == [t \in Threads |->
            IF req[t].pc = "idle" THEN req[t] ELSE [req[t] EXCEPT !.races = @ + 1]]

\* ------------------------------------------------- the tables' other writers
\* a row is inserted into movies
InsertMovie(p) ==
    /\ nextId <= MaxId
    /\ movies' = Append(movies, [id |-> nextId, popularity |-> p])
    /\ nextId' = nextId + 1
    /\ req' = Raced
    /\ UNCHANGED <<ratings, movie_ids, tfidf_matrix, last_count, probe>>

\* a row is deleted from movies; its ratings go with it (cascade, foreign key)
DeleteMovie(i) ==
    /\ i \in 1..Len(movies)
    /\ movies' = [k \in 1..(Len(movies) - 1) |-> IF k < i THEN movies[k] ELSE movies[k + 1]]
    /\ ratings' = [m \in DOMAIN ratings \ {movies[i].id} |-> ratings[m]]
    /\ req' = Raced
    /\ UNCHANGED <<nextId, movie_ids, tfidf_matrix, last_count, probe>>

\* the popularity of a row is updated in place
SetPopularity(i, p) ==
    /\ i \in 1..Len(movies)
    /\ movies[i].popularity # p
    /\ movies' = [movies EXCEPT ![i].popularity = p]
    /\ req' = Raced
    /\ UNCHANGED <<nextId, ratings, movie_ids, tfidf_matrix, last_count, probe>>

\* POST /api/users/{user_id}/ratings for the user, who exists: 404 unless the
\* movie exists, else the
\* rating is updated or inserted.  A request reads the ratings once, as its
\* first step, so an upsert during a request is an upsert after it.
upsert_rating(movie_id, rating) ==
    /\ movie_id \in Range(Ids(movies))
    /\ ratings' = [m \in DOMAIN ratings \cup {movie_id} |->
                      IF m = movie_id THEN rating ELSE ratings[m]]
    /\ ratings' # ratings
    /\ UNCHANGED <<movies, nextId, movie_ids, tfidf_matrix, last_count, req, probe>>

\* ------------------------------------------------------ recommend_for_user
Shared == <<movies, nextId, ratings, probe>>

\* GET /api/recommend?user_id=..&limit=k, then lines 91-102
Begin(t, k) ==
    /\ req[t].pc = "idle"
    /\ req' = LET rs  == UserRatings
                  top == TopRatings(rs)
              IN  IF Len(rs) = 0
                  THEN [req EXCEPT ![t].pc = "L95", ![t].limit = k, ![t].branch = "cold"]
                  ELSE [req EXCEPT ![t].pc = "L84", ![t].limit = k,
                                   ![t].liked_ids = [i \in 1..Len(top) |-> top[i].movie_id],
                                   ![t].weights = [i \in 1..Len(top) |-> top[i].rating]]
    /\ UNCHANGED <<Shared, movie_ids, tfidf_matrix, last_count>>

\* lines 95-96 with a call of ensure_model that fits, put before them
ColdStart_FitsFirst(t) ==
    /\ req[t].pc = "L95"
    /\ movie_ids' = FitIds(AllMovies)
    /\ tfidf_matrix' = FitMatrix(AllMovies)
    /\ req' = [req EXCEPT ![t].pc = "done",
                          ![t].out = WithPopularityScore(TopByPopularity(req[t].limit))]
    /\ UNCHANGED <<Shared, last_count>>

\* lines 95-96
ColdStart(t) ==
    /\ req[t].pc = "L95"
    /\ req' = [req EXCEPT ![t].pc = "done",
                          ![t].out = WithPopularityScore(TopByPopularity(req[t].limit))]
    /\ UNCHANGED <<Shared, movie_ids, tfidf_matrix, last_count>>

\* ensure_model, line 84
EnsureRead(t) ==
    /\ req[t].pc = "L84"
    /\ req' = [req EXCEPT ![t].pc = "L85", ![t].movies = AllMovies]
    /\ UNCHANGED <<Shared, movie_ids, tfidf_matrix, last_count>>

\* line 85 without the comparison of the counts: fit on the first call only
NeedsFit_FirstCallOnly(ms) == tfidf_matrix.isNone

\* line 85
NeedsFit(ms) == tfidf_matrix.isNone \/ Len(movie_ids) # Len(ms)

EnsureCheck(t) ==
    /\ req[t].pc = "L85"
    /\ req' = [req EXCEPT ![t].pc = IF NeedsFit(req[t].movies) THEN "L31" ELSE "L106",
                          ![t].prev_count = last_count,
                          ![t].before = [ids |-> movie_ids, matrix |-> tfidf_matrix]]
    /\ last_count' = <<Len(req[t].movies)>>
    /\ UNCHANGED <<Shared, movie_ids, tfidf_matrix>>

\* fit, line 31
FitAssignIds(t) ==
    /\ req[t].pc = "L31"
    /\ movie_ids' = FitIds(req[t].movies)
    /\ req' = [req EXCEPT ![t].pc = "L33", ![t].rebuilds = @ + 1]
    /\ UNCHANGED <<Shared, tfidf_matrix, last_count>>

\* fit, lines 32-38
FitAssignMatrix(t) ==
    /\ req[t].pc = "L33"
    /\ tfidf_matrix' = FitMatrix(req[t].movies)
    /\ req' = [req EXCEPT ![t].pc = "L106"]
    /\ UNCHANGED <<Shared, movie_ids, last_count>>

\* lines 106-109; the locals of ensure_model are gone
Score(t) ==
    /\ req[t].pc = "L106"
    /\ LET r == ScoresForMovies(movie_ids, tfidf_matrix, req[t].liked_ids,
                                [given |-> TRUE, w |-> req[t].weights])
           q == [req[t] EXCEPT !.movies = << >>, !.prev_count = << >>,
                               !.rebuilds = 0, !.before = IdleReq.before]
       IN  req' = IF r.raised
                  THEN [req EXCEPT ![t] = [q EXCEPT !.pc = "raised", !.branch = "scoring"]]
                  ELSE IF Len(r.map) = 0
                       THEN [req EXCEPT ![t] = [q EXCEPT !.pc = "L110", !.branch = "fallback"]]
                       ELSE [req EXCEPT ![t] = [q EXCEPT !.pc = "L115", !.branch = "personal",
                                                         !.score_map = r.map]]
    /\ UNCHANGED <<Shared, movie_ids, tfidf_matrix, last_count>>

\* lines 110-111
Fallback(t) ==
    /\ req[t].pc = "L110"
    /\ req' = [req EXCEPT ![t].pc = "done",
                          ![t].out = WithPopularityScore(TopByPopularity(req[t].limit))]
    /\ UNCHANGED <<Shared, movie_ids, tfidf_matrix, last_count>>

\* lines 115-117
BlendScores(t) ==
    /\ req[t].pc = "L115"
    /\ req' = [req EXCEPT ![t].pc = "L122", ![t].pop_map = PopMap,
                          ![t].blended = Blended(req[t].score_map, PopMap)]
    /\ UNCHANGED <<Shared, movie_ids, tfidf_matrix, last_count>>

\* lines 120-131
ResolveTop(t) ==
    /\ req[t].pc = "L122"
    /\ LET r == Resolve(req[t].blended, req[t].limit)
       IN  req' = IF r.raised
                  THEN [req EXCEPT ![t].pc = "raised"]
                  ELSE [req EXCEPT ![t].pc = "done", ![t].out = r.out]
    /\ UNCHANGED <<Shared, movie_ids, tfidf_matrix, last_count>>

\* the list is returned, or the exception leaves the handler
Return(t) ==
    /\ req[t].pc \in {"done", "raised"}
    /\ req' = [req EXCEPT ![t] = IdleReq]
    /\ UNCHANGED <<Shared, movie_ids, tfidf_matrix, last_count>>

\* ----------------------------------------------------------- specification
\* the steps of the request of thread t
Request(t) ==
    \/ \E k \in Limits : Begin(t, k)
    \/ ColdStart(t)
    \/ EnsureRead(t)
    \/ EnsureCheck(t)
    \/ FitAssignIds(t)
    \/ FitAssignMatrix(t)
    \/ Score(t)
    \/ Fallback(t)
    \/ BlendScores(t)
    \/ ResolveTop(t)
    \/ Return(t)

\* the tables change between two requests
AddMovie(p) == AllIdle /\ InsertMovie(p)
RemoveMovie(i) == AllIdle /\ DeleteMovie(i)
UpdatePopularity(i, p) == AllIdle /\ SetPopularity(i, p)
RateMovie(m, r) == AllIdle /\ upsert_rating(m, r)

\* requests are handled one at a time; the tables change between requests
Next ==
    \/ \E p \in PopValues : AddMovie(p)
    \/ \E i \in 1..MaxId : RemoveMovie(i)
    \/ \E i \in 1..MaxId, p \in PopValues : UpdatePopularity(i, p)
    \/ \E m \in 1..MaxId, r \in RatingValues : RateMovie(m, r)
    \/ Request(1)

Spec == Init /\ [][Next]_vars

\* the movies table changes inside a request as well
RaceAddMovie(p) == MayRace /\ InsertMovie(p)
RaceRemoveMovie(i) == MayRace /\ DeleteMovie(i)
RaceUpdatePopularity(i, p) == MayRace /\ SetPopularity(i, p)

NextRace ==
    \/ \E p \in PopValues : RaceAddMovie(p)
    \/ \E i \in 1..MaxId : RaceRemoveMovie(i)
    \/ \E i \in 1..MaxId, p \in PopValues : RaceUpdatePopularity(i, p)
    \/ \E m \in 1..MaxId, r \in RatingValues : RateMovie(m, r)
    \/ Request(1)

SpecRace == Init /\ [][NextRace]_vars

\* recommend is a plain def: the server runs each request on a thread of its
\* pool, so two requests run at the same time on the one _recommender.  A
\* thread switch falls between two steps; the tables change between requests.
NextThreads ==
    \/ \E p \in PopValues : AddMovie(p)
    \/ \E i \in 1..MaxId : RemoveMovie(i)
    \/ \E i \in 1..MaxId, p \in PopValues : UpdatePopularity(i, p)
    \/ \E m \in 1..MaxId, r \in RatingValues : RateMovie(m, r)
    \/ \E t \in Threads : Request(t)

SpecThreads == Init /\ [][NextThreads]_vars

\* ------------------------------------------- the liked-item signal, directly
\* rating histories: the user has rated every movie of a catalog of up to
\* MaxRated movies
RatingHistories == UNION {[1..n -> RatingValues] : n \in 0..MaxRated}

InitSignal ==
    /\ \E h \in RatingHistories :
          /\ movies = [i \in 1..Len(h) |-> [id |-> i, popularity |-> NoPop]]
          /\ nextId = Len(h) + 1
          /\ ratings = h
    /\ movie_ids = << >>
    /\ tfidf_matrix = NoMatrix
    /\ last_count = << >>
    /\ req = [t \in Threads |-> IdleReq]
    /\ probe = NoProbe

\* lines 91-102 of one request for the user
NextSignal == \E k \in Limits : Begin(1, k)

\* any rating history, turned into liked_ids and weights
SpecSignal == InitSignal /\ [][NextSignal]_vars

\* --------------------------------------- a ContentRecommender used directly
\* item lists with distinct ids, in any order
ItemLists ==
    LET idLists == UNION {[1..n -> 1..MaxId] : n \in 0..MaxId}
    IN  {[i \in 1..Len(l) |-> [id |-> l[i], popularity |-> NoPop]] :
            l \in {x \in idLists : \A i, k \in 1..Len(x) : i # k => x[i] # x[k]}}

\* liked_movie_ids arguments: ids of the model or not, repeated or not
LikedArgs == UNION {[1..n -> 1..MaxId] : n \in 0..MaxArgs}

\* weights arguments: None, or a list of any length, all-zero lists included
WeightArgs ==
    {[given |-> FALSE, w |-> << >>]}
    \cup {[given |-> TRUE, w |-> w] :
             w \in UNION {[1..n -> {0, 1}] : n \in 0..MaxArgs}}

\* rec.fit(items)
ModelFit(items) ==
    /\ probe.op = "none"
    /\ movie_ids' = FitIds(items)
    /\ tfidf_matrix' = FitMatrix(items)
    /\ probe' = [NoProbe EXCEPT !.op = "fit", !.items = items, !.prev_ids = movie_ids]
    /\ UNCHANGED <<movies, nextId, ratings, last_count, req>>

\* rec.scores_for_movies(liked, weights)
ModelScore(liked, weights) ==
    /\ probe.op = "none"
    /\ probe' = [NoProbe EXCEPT !.op = "score", !.liked = liked, !.weights = weights,
                                !.result = ScoresForMovies(movie_ids, tfidf_matrix, liked, weights)]
    /\ UNCHANGED <<movies, nextId, ratings, movie_ids, tfidf_matrix, last_count, req>>

\* the call is over
ModelReturn ==
    /\ probe.op # "none"
    /\ probe' = NoProbe
    /\ UNCHANGED <<movies, nextId, ratings, movie_ids, tfidf_matrix, last_count, req>>

NextModel ==
    \/ \E items \in ItemLists : ModelFit(items)
    \/ \E liked \in LikedArgs, weights \in WeightArgs : ModelScore(liked, weights)
    \/ ModelReturn

\* one ContentRecommender, called with any arguments, one call at a time
SpecModel == Init /\ [][NextModel]_vars

\* ------------------------------------------------------------------ claims
KeysOf(map) == {map[i].id : i \in 1..Len(map)}

ModelEmpty == tfidf_matrix.isNone \/ Len(movie_ids) = 0

\* C5: scores_for_movies returns an empty mapping and does not raise whenever
\* the model is empty (never fit, or last fit on an empty catalog) or none of
\* liked_ids occurs in the model's identifier list, whatever liked_ids and
\* weights are.
C5_EmptyResultNotError ==
    (/\ probe.op = "score"
     /\ \/ ModelEmpty
        \/ Range(probe.liked) \cap Range(movie_ids) = {})
    => (~probe.result.raised /\ probe.result.map = << >>)

\* C5 witness: a non-empty model is asked about liked ids it does not hold,
\* with a weights list of another length than liked_ids
C5_Witness ==
    /\ probe.op = "score"
    /\ ~ModelEmpty
    /\ Len(probe.liked) > 0
    /\ Range(probe.liked) \cap Range(movie_ids) = {}
    /\ probe.weights.given
    /\ Len(probe.weights.w) # Len(probe.liked)
    /\ ~probe.result.raised

\* C6: whenever scores_for_movies returns normally on a non-empty model with
\* at least one liked id found in it, the keys of the returned map are exactly
\* the model's identifiers that are not in liked_ids, one entry for each.
C6_KeysAreModelMinusLiked ==
    (/\ probe.op = "score"
     /\ ~probe.result.raised
     /\ ~ModelEmpty
     /\ Range(probe.liked) \cap Range(movie_ids) # {})
    => (/\ KeysOf(probe.result.map) = Range(movie_ids) \ Range(probe.liked)
        /\ Len(probe.result.map) = Cardinality(Range(movie_ids) \ Range(probe.liked)))

\* C6 witness: a normal return with a liked id of the model, a liked id not
\* of the model, and an entry left in the map
C6_Witness ==
    /\ probe.op = "score"
    /\ ~probe.result.raised
    /\ ~ModelEmpty
    /\ Range(probe.liked) \cap Range(movie_ids) # {}
    /\ Range(probe.liked) \ Range(movie_ids) # {}
    /\ Len(probe.result.map) > 0

\* C9: after every completed fit(items) the identifier list is the ids of
\* items in input order; for non-empty items the matrix has one row per item,
\* row i the row of items[i]; for empty items there is no matrix and no
\* identifier, whatever the model held before.
C9_FitMatchesInput ==
    probe.op = "fit"
    => /\ Len(movie_ids) = Len(probe.items)
       /\ \A i \in 1..Len(probe.items) : movie_ids[i] = probe.items[i].id
       /\ Len(probe.items) > 0
            => /\ ~tfidf_matrix.isNone
               /\ Len(tfidf_matrix.rows) = Len(probe.items)
               /\ \A i \in 1..Len(probe.items) :
                     tfidf_matrix.rows[i] = Doc(probe.items[i].id)
       /\ Len(probe.items) = 0
            => /\ tfidf_matrix.isNone
               /\ tfidf_matrix.rows = << >>
               /\ movie_ids = << >>

\* C9 witness: a non-empty model has been refit on an empty item list
C9_Witness ==
    /\ probe.op = "fit"
    /\ Len(probe.prev_ids) > 0
    /\ Len(probe.items) = 0

\* the request of thread t has ended with a list
Done(t) == req[t].pc = "done"

OutIds(t) == [k \in 1..Len(req[t].out) |-> req[t].out[k].movie.id]

\* C1: if ensure_model is called twice in a row and both calls see the same
\* number of movies, the second call performs no fit (the rebuild counter
\* stays) and leaves the identifier list and the matrix as they were; this
\* for every catalog, the empty one included.
C1_NoRefitOnSameCount ==
    \A t \in Threads :
        (/\ req[t].pc = "L106"
         /\ req[t].prev_count = <<Len(req[t].movies)>>)
        => /\ req[t].rebuilds = 0
           /\ movie_ids = req[t].before.ids
           /\ tfidf_matrix = req[t].before.matrix

\* C2: whenever recommend_for_user cannot personalize (no ratings, or an empty
\* score map), its result is the first limit rows of the catalog in
\* descending popularity order, each with its popularity as score, NULL
\* counting as 0.
C2_PopularityRanking ==
    \A t \in Threads :
        (Done(t) /\ req[t].branch \in {"cold", "fallback"})
        => LET out == req[t].out
               pop(k) == PopOrZero(out[k].movie.popularity)
           IN  /\ Len(out) = Min(req[t].limit, Len(movies))
               /\ \A k \in 1..Len(out) :
                     /\ out[k].movie \in Range(movies)
                     /\ out[k].score = pop(k) * ScoreUnit
                     /\ \A j \in 1..Len(out) : j # k => out[j].movie.id # out[k].movie.id
                     /\ k < Len(out) => pop(k) >= pop(k + 1)
                     /\ \A m \in Range(movies) :
                           m.id \notin Range(OutIds(t)) => PopOrZero(m.popularity) <= pop(k)

\* C2 witness: a user with ratings gets the fallback list, cut at limit, with
\* a row of NULL popularity in it
C2_Witness ==
    \E t \in Threads :
        /\ Done(t)
        /\ req[t].branch = "fallback"
        /\ Len(movies) > req[t].limit
        /\ Len(req[t].out) = req[t].limit
        /\ \E k \in 1..Len(req[t].out) : req[t].out[k].movie.popularity = NoPop
        /\ \E k \in 1..Len(req[t].out) : req[t].out[k].movie.popularity # NoPop

\* C3, as claimed: no liked item of the user appears in the list
\* recommend_for_user returns, whichever branch produced it.
C3_NoLikedInAnyResult ==
    \A t \in Threads :
        (Done(t) /\ Len(req[t].liked_ids) > 0)
        => Range(OutIds(t)) \cap Range(req[t].liked_ids) = {}

\* C3, amended: no liked item of the user appears in a list produced by the
\* personalized branch (branch 2).
C3_NoLikedInPersonalResult ==
    \A t \in Threads :
        (Done(t) /\ req[t].branch = "personal")
        => Range(OutIds(t)) \cap Range(req[t].liked_ids) = {}

\* C3 witness: a personalized list with an item in it, for a user whose liked
\* items are in the catalog
C3_Witness ==
    \E t \in Threads :
        /\ Done(t)
        /\ req[t].branch = "personal"
        /\ Len(req[t].out) > 0
        /\ Range(req[t].liked_ids) \subseteq Range(Ids(movies))

\* C4: recommend_for_user completes without raising in every state reachable
\* through catalog additions and removals and rating upserts between
\* requests.
C4_NeverRaises == \A t \in Threads : req[t].pc # "raised"

\* C7: recommend_for_user returns at most limit entries, ordered by
\* non-increasing score, in every branch.
C7_AtMostLimitSorted ==
    \A t \in Threads :
        Done(t)
        => /\ Len(req[t].out) <= req[t].limit
           /\ \A k \in 1..(Len(req[t].out) - 1) :
                 req[t].out[k].score >= req[t].out[k + 1].score

\* C7 witness: a personalized list of two entries with different scores
C7_Witness ==
    \E t \in Threads :
        /\ Done(t)
        /\ req[t].branch = "personal"
        /\ Len(req[t].out) = 2
        /\ req[t].out[1].score > req[t].out[2].score

\* the similarity score of an item in the score map of the request
SimOf(t, mid) == (CHOOSE e \in Range(req[t].score_map) : e.id = mid).s

\* C8, as claimed: every pair of a personalized result satisfies
\* score = 0.9*s + 0.1*p with p the popularity of the returned record, also
\* when the catalog is changed while the recommendation is computed.
C8_BlendOfReturnedPopularity ==
    \A t \in Threads :
        (Done(t) /\ req[t].branch = "personal")
        => \A k \in 1..Len(req[t].out) :
              LET e == req[t].out[k]
              IN  e.score = ContentWeight * SimOf(t, e.movie.id)
                            + PopWeight * PopOrZero(e.movie.popularity) * SimUnit

\* C8, amended: score = 0.9*s + 0.1*p with p the popularity the item had when
\* the popularities were read for the blend (line 115), 0 if it was NULL or
\* the item was not in the catalog then.  Scores are in 1/ScoreUnit and s in
\* 1/SimUnit, so the equation reads score = 9*s + 1*p*SimUnit.
C8_BlendOfReadPopularity ==
    \A t \in Threads :
        (Done(t) /\ req[t].branch = "personal")
        => \A k \in 1..Len(req[t].out) :
              LET e == req[t].out[k]
              IN  /\ e.movie.id \in KeysOf(req[t].score_map)
                  /\ e.score = ContentWeight * SimOf(t, e.movie.id)
                               + PopWeight * PopGet(req[t].pop_map, e.movie.id) * SimUnit

\* C8 witness: a returned record whose popularity was changed between the
\* blend and the lookup of the records
C8_Witness ==
    \E t \in Threads :
        /\ Done(t)
        /\ req[t].branch = "personal"
        /\ req[t].races > 0
        /\ \E k \in 1..Len(req[t].out) :
              PopOrZero(req[t].out[k].movie.popularity)
                  # PopGet(req[t].pop_map, req[t].out[k].movie.id)

\* the top-limit blended identifiers of the request
TopBlendedIds(t) == Ids(Take(req[t].blended, req[t].limit))

\* C10: in branch 2, when one of the top-limit blended identifiers is not in
\* the catalog at resolution time, recommend_for_user does not raise; the
\* result is the existing records of the top-limit identifiers, in their
\* blended order, each with its blended score.
C10_MissingIdsDropped ==
    \A t \in Threads :
        (req[t].branch = "personal" /\ req[t].pc \in {"done", "raised"})
        => /\ Done(t)
           /\ OutIds(t) = SelectSeq(TopBlendedIds(t), LAMBDA mid : mid \in Range(Ids(movies)))
           /\ \A k \in 1..Len(req[t].out) :
                 /\ req[t].out[k].movie \in Range(movies)
                 /\ \E i \in 1..Len(req[t].blended) :
                       /\ req[t].blended[i].id = req[t].out[k].movie.id
                       /\ req[t].blended[i].score = req[t].out[k].score

\* C10 witness: a top-limit identifier was deleted after scoring, another
\* one is returned
C10_Witness ==
    \E t \in Threads :
        /\ Done(t)
        /\ req[t].branch = "personal"
        /\ req[t].races > 0
        /\ Range(TopBlendedIds(t)) \ Range(Ids(movies)) # {}
        /\ Range(TopBlendedIds(t)) \subseteq KeysOf(req[t].pop_map)
        /\ Len(req[t].out) > 0

\* the identifier list and the matrix come from one fit: as many rows as
\* identifiers, row i the row of the movie with identifier i
SameFit(ids, matrix) ==
    /\ Len(ids) = Len(matrix.rows)
    /\ \A i \in 1..Len(ids) : matrix.rows[i] = Doc(ids[i])

\* C11: under every interleaving of two concurrent requests, a request that
\* is about to call scores_for_movies (line 106) finds an identifier list and
\* a matrix of the same fit, as many rows as identifiers, and no scoring call
\* fails on a row index beyond the matrix.
C11_ScoringSeesOneFit ==
    \A t \in Threads :
        req[t].pc = "L106" => SameFit(movie_ids, tfidf_matrix)

\* C12, as claimed: after any sequence of additions to and removals from the
\* catalog between requests, the model ensure_model returns (line 105) has
\* the identifier list of the current catalog.
C12_ModelHasCatalogIds ==
    \A t \in Threads :
        req[t].pc = "L106" => movie_ids = Ids(movies)

\* C12, amended: the model ensure_model returns has as many identifiers as
\* the catalog has movies; the identifiers are those of the catalog, in table
\* order, when the call has fit, and it has fit exactly when the model had no
\* matrix or another number of identifiers than the catalog has movies.
C12_ModelHasCatalogCount ==
    \A t \in Threads :
        req[t].pc = "L106"
        => /\ req[t].movies = movies
           /\ Len(movie_ids) = Len(movies)
           /\ req[t].rebuilds > 0 => movie_ids = Ids(movies)
           /\ req[t].rebuilds > 0
                 <=> \/ req[t].before.matrix.isNone
                     \/ Len(req[t].before.ids) # Len(movies)
           /\ req[t].rebuilds = 0
                 => /\ movie_ids = req[t].before.ids
                    /\ tfidf_matrix = req[t].before.matrix

\* C12 witness: a movie was removed and another added since the last fit;
\* ensure_model has returned the model of the old catalog without a fit
C12_Witness ==
    \E t \in Threads :
        /\ req[t].pc = "L106"
        /\ req[t].rebuilds = 0
        /\ Len(movie_ids) = Len(movies)
        /\ Range(movie_ids) \ Range(Ids(movies)) # {}
        /\ Range(Ids(movies)) \ Range(movie_ids) # {}

\* C13: for every rating history with at least one rating, liked_ids are
\* min(10, n) distinct rated movies with the highest ratings, in descending
\* rating order, equal ratings in the order they were read (a rating that is
\* left out is no higher than any kept one, and was read after the kept ones
\* it equals), and weights[i] is the rating of liked_ids[i].
C13_LikedSignal ==
    \A t \in Threads :
        req[t].pc = "L84"
        => LET L == req[t].liked_ids
               W == req[t].weights
           IN  /\ Len(L) = Min(TopN, Cardinality(DOMAIN ratings))
               /\ Len(W) = Len(L)
               /\ \A i \in 1..Len(L) :
                     /\ L[i] \in DOMAIN ratings
                     /\ W[i] = ratings[L[i]]
                     /\ \A j \in (i + 1)..Len(L) :
                           /\ L[i] # L[j]
                           /\ W[i] >= W[j]
                           /\ W[i] = W[j] => L[i] < L[j]
                     /\ \A m \in DOMAIN ratings \ Range(L) :
                           /\ ratings[m] <= W[i]
                           /\ ratings[m] = W[i] => L[i] < m

\* C13 witness: more than 10 ratings, of different values; the signal is cut
\* at 10, out of input order, and a rating left out equals a kept one
C13_Witness ==
    \E t \in Threads :
        /\ req[t].pc = "L84"
        /\ Cardinality(DOMAIN ratings) > TopN
        /\ Len(req[t].liked_ids) = TopN
        /\ req[t].weights[1] > req[t].weights[TopN]
        /\ \E i \in 1..(TopN - 1) : req[t].liked_ids[i] > req[t].liked_ids[i + 1]
        /\ \E m \in DOMAIN ratings \ Range(req[t].liked_ids) :
              ratings[m] = req[t].weights[TopN]

\* _recommender.movie_ids and _recommender.tfidf_matrix
Model == <<movie_ids, tfidf_matrix>>

\* C14: the cached identifier list and matrix are changed by fit only:
\* every step that changes one of them is a step of fit; the scoring step of
\* a request and a direct scores_for_movies call leave both unchanged; a
\* request of a user with no ratings takes the cold-start branch, and no step
\* of that branch enters ensure_model or fit or changes the model.
C14_OnlyFitChangesModel ==
    [][/\ Model' # Model
           => \/ \E t \in Threads : FitAssignIds(t) \/ FitAssignMatrix(t)
              \/ \E items \in ItemLists : ModelFit(items)
       /\ \A t \in Threads : Score(t) => Model' = Model
       /\ (probe'.op = "score" /\ probe.op # "score") => Model' = Model
       /\ \A t \in Threads :
             /\ (req[t].pc = "idle" /\ req'[t].pc # "idle" /\ ratings = << >>)
                   => req'[t].branch = "cold"
             /\ (req[t].branch = "cold" \/ req'[t].branch = "cold")
                   => /\ Model' = Model
                      /\ last_count' = last_count
                      /\ req'[t].pc \in {"L95", "done", "idle"}
                      /\ req'[t].rebuilds = 0
      ]_vars

\* C14 witness: a cold-start request has returned a list while the cached
\* model is that of an older catalog of another size, which ensure_model
\* would have refit
C14_Witness ==
    \E t \in Threads :
        /\ Done(t)
        /\ req[t].branch = "cold"
        /\ Len(req[t].out) > 0
        /\ ~tfidf_matrix.isNone
        /\ SameFit(movie_ids, tfidf_matrix)
        /\ Len(movie_ids) # Len(movies)

====
